---- MODULE Spec2Model ----
(***************************************************************************)
(* The browser console of the CodexMonitor web gateway as a state machine: *)
(* its store (state.workspaces, state.activeWorkspaceId, state.threads,    *)
(* state.activeThreadId), the debounced thread refresh, the handler of     *)
(* app-server-event push messages, the composer (resumeThread,             *)
(* sendMessage), the event log and the WebSocket handle.  One action is    *)
(* one task of the single-threaded event loop: a handler runs from its     *)
(* start to its first await of an outbound call, a response runs the rest  *)
(* of the async function that awaited it (with the callers awaiting that   *)
(* function).                                                              *)
(*                                                                         *)
(* Spec is the store with the scheduler and the pushed events, FairSpec    *)
(* the same without startThread and with the timer and the calls fair,     *)
(* ComposerSpec the store with the composer, LogSpec the event log and     *)
(* ChanSpec the WebSocket handle and its badge.  The event log is written  *)
(* by almost every task and read by none: the tasks of the other           *)
(* specifications leave it out, and LogSpec has the appendEvent call as    *)
(* its step.  ApiSpec is api() over the ways its fetch() settles and the   *)
(* bodies it reads, StoreSpec the credential (state.token and its entry in *)
(* localStorage) and TokenSpec the credential with the calls and the       *)
(* WebSockets that carry it.  MsgSpec is the "message" listener over the   *)
(* kinds of messages, PairSpec the composer with nothing typed into the    *)
(* thread-id input, and TimerSpec the scheduler, fair, with the workspace  *)
(* switches and the buttons of the push channel.                           *)
(***************************************************************************)
EXTENDS Naturals, Sequences, FiniteSets, Bags, TLC

\* ------------------------------------------------------------ bounds ----
\* Outbound calls that may be awaiting their response at the same time.
MaxInFlight == 2

\* appendEvent calls over the life of the page.
MaxAppended == 302

\* WebSockets constructed over the life of the page.
MaxSockets == 3

\* Tokens of a response body.
MaxBody == 4

\* Push messages other than app-server-event followed.
MaxMessages == 2

\* ------------------------------------------------ program constants -----
MAX_EVENT_LINES == 300

\* ------------------------------------------------------ the daemon ------
\* Ids are opaque non-empty strings; "" is the console's "no selection".
WorkspaceIds == {"w1", "w2"}
ThreadIds == {"t1", "t2", "t3"}

\* A thread is scoped to exactly one workspace.
OwnerOf(t) == IF t = "t3" THEN "w2" ELSE "w1"

\* The collections a fetch may return: empty, one item, and two items with
\* the single one of the shorter collection last (so that a kept selection
\* need not be the first item).
WorkspaceLists == {<<>>, <<"w2">>, <<"w1", "w2">>}
ThreadLists(w) == IF w = "w1" THEN {<<>>, <<"t1">>, <<"t2", "t1">>}
                  ELSE {<<>>, <<"t3">>}

\* The thread id POST /api/threads/start may answer for workspace w: none,
\* or the id of a thread of w.
StartedIds(w) == IF w = "w1" THEN {"", "t1"} ELSE {"", "t3"}

\* -------------------------------------------------------- the state -----
VARIABLES
    workspaces,            \* state.workspaces, as the sequence of their ids
    activeWorkspaceId,     \* state.activeWorkspaceId
    threads,               \* state.threads, as the sequence of their ids
    activeThreadId,        \* state.activeThreadId
    threadIdInput,         \* els.threadIdInput.value
    refreshThreadsTimer,   \* state.refreshThreadsTimer is not null
    armed,                 \* setTimeout callbacks armed and not yet run
    inflight,              \* bag of outbound calls awaiting their response
    idemRun,               \* history: 0, or how many refreshThreads in a row
                           \* (saturating at 2) left threads/activeThreadId
                           \* as they are now, with the same collection
    last,                  \* history: the task that led to this state
    messageInput,          \* els.messageInput.value
    eventsLog,             \* the children of els.eventsLog, first child first,
                           \* each as the number of the appendEvent call that
                           \* made it
    appended,              \* history: appendEvent calls so far
    stateWs,               \* state.ws: 0 for null, or the number of the
                           \* WebSocket held
    sockets,               \* the WebSockets constructed so far, in order, each
                           \* as its readyState
    wsUrls,                \* the query of the URL each of them was constructed
                           \* with
    wsStatus,              \* the text of the els.wsStatus badge
    steady,                \* history: the last text the badge was set to other
                           \* than "WS: error" ("" before the first)
    response,              \* api(): how its fetch() settled
    outcome,               \* api(): what it returned or threw
    token,                 \* state.token
    stored,                \* localStorage: <<>>, or <<v>> when the entry
                           \* TOKEN_STORAGE_KEY holds v
    tokenInput             \* els.tokenInput.value

logVars == <<eventsLog, appended>>
chanVars == <<stateWs, sockets, wsUrls, wsStatus, steady>>
\* The variables of the composer, of the event log, of the push channel, of
\* the request client and of the credential store.
apiVars == <<response, outcome>>
tokenVars == <<token, stored, tokenInput>>
uiVars == <<messageInput, logVars, chanVars, apiVars, tokenVars>>

vars == <<workspaces, activeWorkspaceId, threads, activeThreadId, threadIdInput,
          refreshThreadsTimer, armed, inflight, idemRun, last, uiVars>>

\* The headers of a call, as what they hold under Authorization: <<>> when
\* they hold nothing there.  No caller of api() passes headers of its own.
NoHeaders == [Authorization |-> <<>>]

\* Variant of authHeaders: the header is set whatever the credential.
authHeadersAlways(extra, tok) ==
    [extra EXCEPT !.Authorization = <<"Bearer", tok>>]

\* authHeaders(extra), with state.token being tok.
authHeaders(extra, tok) ==
    IF tok # "" THEN [extra EXCEPT !.Authorization = <<"Bearer", tok>>]
    ELSE extra

\* The query of the URL connectWs() makes, with state.token being tok: the
\* parameter token, or nothing.
wsQuery(tok) == IF tok # "" THEN <<"token", tok>> ELSE <<>>

\* An outbound call: GET /api/drawings, GET /api/workspaces,
\* GET /api/threads?workspaceId=ws
\* (then: the thread id the awaiting startThread selects afterwards, or ""),
\* POST /api/threads/start {workspaceId: ws}, POST /api/threads/resume and
\* POST /api/threads/message (their bodies are kept in the history record of
\* the click that posted them).  api() gives it the headers authHeaders()
\* makes of the credential held when the call is made.
ReqAs(k, ws, then, tok) ==
    [k |-> k, ws |-> ws, then |-> then, headers |-> authHeaders(NoHeaders, tok)]
Req(k, ws, then) == ReqAs(k, ws, then, token)
One(r) == SetToBag({r})
Pending == BagToSet(inflight)
CanIssue == BagCardinality(inflight) < MaxInFlight

\* The history record of a task: its name and what the properties need of its
\* inputs and of the state it started from.
\*   workspacesApplied  prev: the active workspace id before
\*   threadsApplied     tid: the thread id the awaiting startThread selects;
\*                      prev: the active thread id before (tid = "" only)
\*   startResponse      tid: the thread id answered
\*   startThread        prev: the error thrown before the call, "" if none
\*   resumeThread, sendMessage
\*                      prev: the error thrown before the call, "" if none;
\*                      ws, tid: the workspaceId and threadId of the body
\*                      posted
\*   connect            prev: "held" when a WebSocket was held, "reopened"
\*                      when the task before was the close event of the one
\*                      held, else "opened"
\*   disconnect, wsOpen, wsError, wsClose
\*                      prev: "held" when the WebSocket was the one held
\*   requestFailed      prev: the kind of call; ws: "sched" when the call is
\*                      the fetch the timer callback issued right before
\*   push               ws, tid: the event's; prev: "armed" when it armed the
\*                      timer, "coalesced" when it found one pending,
\*                      "coalesced+" when the push before it did so too
\*   timerFired         prev: that of the push right before it, if any
Ev(op, ws, tid, prev) == [op |-> op, ws |-> ws, tid |-> tid, prev |-> prev]

Has(s, x) == \E i \in 1..Len(s) : s[i] = x

\* ---------------------------------------------- the request client ------
\* A response body is a sequence of tokens, read with a blank between them;
\* <<>> is the empty body.
Tokens == {"{", "}", "[", "]", "null", "1", "\"error\":"}

\* JavaScript values: null, the number 1, an array (v: its elements), an
\* object without members or with the member "error" (v: its value), and
\* the object {raw: text} that api() makes (v: the text).
JNull == [t |-> "null", v |-> <<>>]
JNum == [t |-> "num", v |-> <<>>]
JArr(elems) == [t |-> "arr", v |-> elems]
JObj(members) == [t |-> "obj", v |-> members]
JRaw(text) == [t |-> "raw", v |-> text]

\* JSON.parse, by recursive descent from position i of the text s: the value
\* read and the position after it, or end = 0 where no value starts.
NoParse == [end |-> 0, val |-> JNull]
RECURSIVE ParseValue(_, _)
ParseValue(s, i) ==
    IF i > Len(s) THEN NoParse
    ELSE CASE s[i] = "null" -> [end |-> i + 1, val |-> JNull]
           [] s[i] = "1" -> [end |-> i + 1, val |-> JNum]
           [] s[i] \in {"[", "{"} ->
                LET close == IF s[i] = "[" THEN "]" ELSE "}"
                    make(elems) == IF s[i] = "[" THEN JArr(elems) ELSE JObj(elems)
                    \* an array element starts right away, an object member
                    \* after its name
                    from == IF s[i] = "[" THEN i + 1
                            ELSE IF i + 1 <= Len(s) /\ s[i + 1] = "\"error\":"
                            THEN i + 2 ELSE 0
                    e == IF from = 0 THEN NoParse ELSE ParseValue(s, from)
                IN IF i + 1 <= Len(s) /\ s[i + 1] = close
                   THEN [end |-> i + 2, val |-> make(<<>>)]
                   ELSE IF e.end # 0 /\ e.end <= Len(s) /\ s[e.end] = close
                   THEN [end |-> e.end + 1, val |-> make(<<e.val>>)]
                   ELSE NoParse
           [] OTHER -> NoParse

\* JSON.parse(text): the value, or threw = TRUE for a SyntaxError.
JSONparse(text) ==
    LET p == ParseValue(text, 1)
    IN IF p.end = Len(text) + 1 THEN [threw |-> FALSE, val |-> p.val]
       ELSE [threw |-> TRUE, val |-> JNull]

\* How a fetch() settles: rejected (no response), or a response with its ok
\* flag and its body text.
NoResponse == [kind |-> "none", ok |-> FALSE, rawText |-> <<>>]
Rejected == [kind |-> "rejected", ok |-> FALSE, rawText |-> <<>>]
Response(ok, rawText) == [kind |-> "response", ok |-> ok, rawText |-> rawText]
FetchOutcomes == {Rejected} \cup {Response(ok, <<>>) : ok \in BOOLEAN}

\* What api() does: returns payload, or throws message ("error": the text of
\* payload.error, "status": status and statusText, "fetch": the rejection of
\* fetch).
NoOutcome == [kind |-> "none", payload |-> JNull, message |-> ""]
Returns(payload) == [kind |-> "returns", payload |-> payload, message |-> ""]
Throws(message) == [kind |-> "throws", payload |-> JNull, message |-> message]

\* JavaScript truthiness of payload && payload.error.
HasError(payload) ==
    /\ payload.t = "obj" /\ payload.v # <<>>
    /\ payload.v[1].t # "null"

\* Variant of api: a body that is not JSON fails the call.
apiStrict(resp) ==
    IF resp.kind = "rejected" THEN Throws("fetch")
    ELSE LET parsed == JSONparse(resp.rawText)
             payload == IF resp.rawText = <<>> \/ parsed.threw THEN JNull ELSE parsed.val
         IN IF resp.rawText # <<>> /\ parsed.threw THEN Throws("syntax")
            ELSE IF ~resp.ok
            THEN Throws(IF HasError(payload) THEN "error" ELSE "status")
            ELSE Returns(payload)

\* api(path, options) once its fetch has settled as resp.
api(resp) ==
    IF resp.kind = "rejected" THEN Throws("fetch")
    ELSE LET parsed == JSONparse(resp.rawText)
             payload == IF resp.rawText = <<>> THEN JNull
                        ELSE IF parsed.threw THEN JRaw(resp.rawText)
                        ELSE parsed.val
         IN IF ~resp.ok
            THEN Throws(IF HasError(payload) THEN "error" ELSE "status")
            ELSE Returns(payload)

\* JSON.stringify: the text of a value, token by token.
RECURSIVE Stringify(_)
Stringify(val) ==
    CASE val.t = "null" -> <<"null">>
      [] val.t = "num" -> <<"1">>
      [] val.t = "arr" ->
           <<"[">> \o (IF val.v = <<>> THEN <<>> ELSE Stringify(val.v[1])) \o <<"]">>
      [] val.t = "obj" ->
           <<"{">> \o (IF val.v = <<>> THEN <<>>
                       ELSE <<"\"error\":">> \o Stringify(val.v[1])) \o <<"}">>

\* The JSON values nested at most d deep, and the texts that are JSON: the
\* texts of the values whose text fits a body.
RECURSIVE JsonValues(_)
JsonValues(d) ==
    IF d = 0 THEN {JNull, JNum, JArr(<<>>), JObj(<<>>)}
    ELSE LET inner == JsonValues(d - 1)
         IN inner \cup {JArr(<<e>>) : e \in inner} \cup {JObj(<<e>>) : e \in inner}
ValidTexts == {Stringify(val) : val \in JsonValues(MaxBody)}

Init ==
    /\ workspaces = <<>>
    /\ activeWorkspaceId = ""
    /\ threads = <<>>
    /\ activeThreadId = ""
    /\ threadIdInput = ""
    /\ refreshThreadsTimer = FALSE
    /\ armed = 0
    /\ inflight = EmptyBag
    /\ idemRun = 0
    /\ last = Ev("init", "", "", "")
    /\ messageInput = ""
    /\ eventsLog = <<>>
    /\ appended = 0
    /\ stateWs = 0
    /\ sockets = <<>>
    /\ wsStatus = ""
    /\ steady = ""
    /\ wsUrls = <<>>
    /\ response = NoResponse
    /\ outcome = NoOutcome
    /\ token = ""
    /\ stored = <<>>
    /\ tokenInput = ""

\* idemRun after a task that is not a completed plain refreshThreads.
Touched == IF threads' = threads /\ activeThreadId' = activeThreadId
           THEN idemRun ELSE 0

\* ------------------------------------------------ pure helpers ----------
\* What the operator may leave in the thread-id input, nothing or an id with
\* blanks around it, and in the message input, nothing, blanks only or text
\* with blanks around it.
TypedThreadIds == {"", " t3 "}
TypedMessages == {"", "  ", " hi "}

\* String.prototype.trim on the strings of the model.
Trim(s) == CASE s = "  "   -> ""
             [] s = " t3 " -> "t3"
             [] s = " hi " -> "hi"
             [] s = " tk1 " -> "tk1"
             [] OTHER      -> s

\* Variant of resolveThreadId: the stored active thread id comes first.
resolveActiveFirst(input, active) ==
    Trim(IF active # "" THEN active ELSE input)

\* The thread id resumeThread() and sendMessage() use:
\* String(els.threadIdInput.value || state.activeThreadId || "").trim().
resolveThreadId(input, active) ==
    Trim(IF input # "" THEN input ELSE active)

\* Variant of resumeThreadError: the active workspace is not looked at.
resumeThreadErrorAnyWorkspace(aw, threadId) ==
    IF threadId = "" THEN "Select a thread first" ELSE ""

\* The error resumeThread() throws before its call, "" when it throws none.
resumeThreadError(aw, threadId) ==
    IF aw = "" THEN "Select a workspace first"
    ELSE IF threadId = "" THEN "Select a thread first"
    ELSE ""

\* Variant of sendMessageError: the text is not looked at.
sendMessageErrorAnyText(aw, threadId, text) ==
    IF aw = "" THEN "Select a workspace first"
    ELSE IF threadId = "" THEN "Select a thread first"
    ELSE ""

\* The error sendMessage() throws before its call, "" when it throws none;
\* text is the trimmed value of the message input.
sendMessageError(aw, threadId, text) ==
    IF aw = "" THEN "Select a workspace first"
    ELSE IF threadId = "" THEN "Select a thread first"
    ELSE IF text = "" THEN "Enter a message first"
    ELSE ""

\* Variant of renderWorkspaces: an empty collection leaves the active
\* workspace id as it is.
renderWorkspacesKeepsOnEmpty(C, previous) ==
    IF Len(C) = 0 \/ Has(C, previous) THEN previous ELSE C[1]

\* Variant of renderWorkspaces: the first workspace always becomes active.
renderWorkspacesFirst(C, previous) ==
    IF Len(C) = 0 THEN "" ELSE C[1]

\* renderWorkspaces: the active workspace id after the collection C replaced
\* state.workspaces, previous being state.activeWorkspaceId before.
renderWorkspaces(C, previous) ==
    IF Len(C) = 0 THEN ""
    ELSE IF Has(C, previous) THEN previous ELSE C[1]

\* Variant of reconcileActiveThread: an id absent from T is not reset.
reconcileKeepsAbsent(a, T) ==
    IF a = "" /\ Len(T) > 0 THEN T[1] ELSE a

\* Variant of reconcileActiveThread: the first thread wins over a kept id.
reconcileAlwaysFirst(a, T) ==
    IF Len(T) > 0 THEN T[1] ELSE ""

\* refreshThreads, after the response: the active thread id reconciled with
\* the fetched collection T (reset when absent, then default to the first).
reconcileActiveThread(a, T) ==
    LET kept == IF a # "" /\ ~Has(T, a) THEN "" ELSE a
    IN  IF kept = "" /\ Len(T) > 0 THEN T[1] ELSE kept

\* Variant of scheduleArms: a pending refresh does not stop another timer.
scheduleArmsWhilePending(workspaceId) ==
    ~(workspaceId = "" \/ workspaceId # activeWorkspaceId)

\* Variant of scheduleArms: the target is not compared with the active
\* workspace.
scheduleArmsStale(workspaceId) ==
    /\ workspaceId # ""
    /\ ~refreshThreadsTimer

\* scheduleRefreshThreads(workspaceId) arms a timer: neither a stale target
\* nor a refresh already pending.
scheduleArms(workspaceId) ==
    /\ ~(workspaceId = "" \/ workspaceId # activeWorkspaceId)
    /\ ~refreshThreadsTimer

\* Variant of refreshThreads: the fetch is issued whether or not a workspace
\* is active.
refreshThreadsUnguarded(aw, rest, then) ==
    threads' = threads /\ inflight' = rest (+) One(Req("threads", aw, then))

\* -------------------------------------------------------- actions -------
\* refreshThreads() up to its await, called with aw = state.activeWorkspaceId
\* and rest = the calls still awaited: with no active workspace it empties
\* state.threads and returns, otherwise it issues the thread fetch for aw.
refreshThreads(aw, rest, then) ==
    IF aw = ""
    THEN threads' = <<>> /\ inflight' = rest
    ELSE threads' = threads /\ inflight' = rest (+) One(Req("threads", aw, then))

\* refreshWorkspacesBtn / pingBtn click, bootstrap: refreshWorkspaces() up to
\* its await of GET /api/workspaces.
ClickRefreshWorkspaces ==
    /\ CanIssue
    /\ inflight' = inflight (+) One(Req("workspaces", "", ""))
    /\ UNCHANGED uiVars
    /\ last' = Ev("refreshWorkspaces", "", "", "")
    /\ UNCHANGED <<workspaces, activeWorkspaceId, threads, activeThreadId,
                   threadIdInput, refreshThreadsTimer, armed, idemRun>>

\* Variant of WorkspacesResponse: with no workspace left active the thread
\* collection is left as it is.
WorkspacesResponseKeepsThreads(C) ==
    LET r == Req("workspaces", "", "")
        reconciled == renderWorkspaces(C, activeWorkspaceId)
    IN
    /\ r \in Pending
    /\ workspaces' = C
    /\ activeWorkspaceId' = reconciled
    /\ threads' = threads
    /\ inflight' = IF reconciled = "" THEN inflight (-) One(r)
                   ELSE (inflight (-) One(r)) (+) One(Req("threads", reconciled, ""))
    /\ UNCHANGED uiVars
    /\ last' = Ev("workspacesApplied", "", "", activeWorkspaceId)
    /\ UNCHANGED <<activeThreadId, threadIdInput, refreshThreadsTimer, armed>>
    /\ idemRun' = Touched

\* GET /api/workspaces answered with the collection C: the rest of
\* refreshWorkspaces(), with renderWorkspaces() and the call of
\* refreshThreads().
WorkspacesResponse(C) ==
    LET r == Req("workspaces", "", "") IN
    /\ r \in Pending
    /\ workspaces' = C
    /\ activeWorkspaceId' = renderWorkspaces(C, activeWorkspaceId)
    /\ refreshThreads(activeWorkspaceId', inflight (-) One(r), "")
    /\ UNCHANGED uiVars
    /\ last' = Ev("workspacesApplied", "", "", activeWorkspaceId)
    /\ UNCHANGED <<activeThreadId, threadIdInput, refreshThreadsTimer, armed>>
    /\ idemRun' = Touched

\* refreshThreadsBtn click: refreshThreads() up to its await.
ClickRefreshThreads ==
    /\ activeWorkspaceId = "" \/ CanIssue
    /\ refreshThreads(activeWorkspaceId, inflight, "")
    /\ UNCHANGED uiVars
    /\ last' = Ev("refreshThreads", "", "", "")
    /\ UNCHANGED <<workspaces, activeWorkspaceId, activeThreadId, threadIdInput,
                   refreshThreadsTimer, armed>>
    /\ idemRun' = Touched

\* Variant of ThreadsResponse: the active thread id is reconciled before
\* state.threads is replaced, that is against the collection held so far.
ThreadsResponseStale(r, T) ==
    LET reconciled == reconcileActiveThread(activeThreadId, threads)
        final == IF r.then # "" THEN r.then ELSE reconciled
    IN
    /\ r \in Pending /\ r.k = "threads"
    /\ threads' = T
    /\ activeThreadId' = final
    /\ threadIdInput' = final
    /\ inflight' = inflight (-) One(r)
    /\ idemRun' = IF r.then # "" THEN 0
                  ELSE IF idemRun >= 1 /\ T = threads THEN 2 ELSE 1
    /\ UNCHANGED uiVars
    /\ last' = Ev("threadsApplied", "", r.then, IF r.then = "" THEN activeThreadId ELSE "")
    /\ UNCHANGED <<workspaces, activeWorkspaceId, refreshThreadsTimer, armed>>

\* Variant of ThreadsResponse: the task ends once state.threads is replaced,
\* the reconciliation being left to a later task.
ThreadsResponseYields(r, T) ==
    /\ r \in Pending /\ r.k = "threads"
    /\ threads' = T
    /\ inflight' = inflight (-) One(r)
    /\ idemRun' = 0
    /\ UNCHANGED uiVars
    /\ last' = Ev("threadsApplied", "", r.then, IF r.then = "" THEN activeThreadId ELSE "")
    /\ UNCHANGED <<workspaces, activeWorkspaceId, activeThreadId, threadIdInput,
                   refreshThreadsTimer, armed>>

\* Variant of ThreadsResponse: the answer to a fetch for another workspace
\* than the active one is dropped.
ThreadsResponseRevalidates(r, T) ==
    LET reconciled == reconcileActiveThread(activeThreadId, T)
        final == IF r.then # "" THEN r.then ELSE reconciled
        current == r.ws = activeWorkspaceId
    IN
    /\ r \in Pending /\ r.k = "threads"
    /\ threads' = IF current THEN T ELSE threads
    /\ activeThreadId' = IF current THEN final ELSE activeThreadId
    /\ threadIdInput' = IF current THEN final ELSE threadIdInput
    /\ inflight' = inflight (-) One(r)
    /\ idemRun' = 0
    /\ UNCHANGED uiVars
    /\ last' = Ev("threadsApplied", "", r.then, IF r.then = "" THEN activeThreadId ELSE "")
    /\ UNCHANGED <<workspaces, activeWorkspaceId, refreshThreadsTimer, armed>>

\* GET /api/threads answered with the collection T: the rest of
\* refreshThreads() and, when startThread() awaited it with a thread id,
\* startThread's selectThread(threadId), which runs in the same task.
ThreadsResponse(r, T) ==
    LET reconciled == reconcileActiveThread(activeThreadId, T)
        final == IF r.then # "" THEN r.then ELSE reconciled
    IN
    /\ r \in Pending /\ r.k = "threads"
    /\ threads' = T
    /\ activeThreadId' = final
    /\ threadIdInput' = final
    /\ inflight' = inflight (-) One(r)
    /\ idemRun' = IF r.then # "" THEN 0
                  ELSE IF idemRun >= 1 /\ T = threads THEN 2 ELSE 1
    /\ UNCHANGED uiVars
    /\ last' = Ev("threadsApplied", "", r.then, IF r.then = "" THEN activeThreadId ELSE "")
    /\ UNCHANGED <<workspaces, activeWorkspaceId, refreshThreadsTimer, armed>>

\* Variant of SelectWorkspace: the change handler cancels a pending timer.
SelectWorkspaceCancelsTimer(w) ==
    /\ Has(workspaces, w) /\ w # activeWorkspaceId
    /\ CanIssue
    /\ activeWorkspaceId' = w
    /\ refreshThreads(w, inflight, "")
    /\ refreshThreadsTimer' = FALSE
    /\ armed' = 0
    /\ UNCHANGED uiVars
    /\ last' = Ev("selectWorkspace", "", "", "")
    /\ UNCHANGED <<workspaces, activeThreadId, threadIdInput>>
    /\ idemRun' = Touched

\* workspaceSelect change: the operator picks another option of the select,
\* whose options are the workspaces rendered and whose value is the active one.
SelectWorkspace(w) ==
    /\ Has(workspaces, w) /\ w # activeWorkspaceId
    /\ CanIssue
    /\ activeWorkspaceId' = w
    /\ refreshThreads(w, inflight, "")
    /\ UNCHANGED uiVars
    /\ last' = Ev("selectWorkspace", "", "", "")
    /\ UNCHANGED <<workspaces, activeThreadId, threadIdInput, refreshThreadsTimer,
                   armed>>
    /\ idemRun' = Touched

\* Click on a rendered thread item: selectThread(id).
SelectThread(t) ==
    /\ Has(threads, t)
    /\ activeThreadId' = t
    /\ threadIdInput' = t
    /\ UNCHANGED uiVars
    /\ last' = Ev("selectThread", "", "", "")
    /\ UNCHANGED <<workspaces, activeWorkspaceId, threads, refreshThreadsTimer,
                   armed, inflight>>
    /\ idemRun' = Touched

\* startThreadBtn click: startThread() up to its await of POST
\* /api/threads/start, or, with no workspace active, up to its throw, which
\* the click handler catches.
ClickStartThread ==
    /\ activeWorkspaceId = "" \/ CanIssue
    /\ inflight' = IF activeWorkspaceId = "" THEN inflight
                   ELSE inflight (+) One(Req("start", activeWorkspaceId, ""))
    /\ UNCHANGED uiVars
    /\ last' = Ev("startThread", "", "",
                   IF activeWorkspaceId = "" THEN "Select a workspace first" ELSE "")
    /\ UNCHANGED <<workspaces, activeWorkspaceId, threads, activeThreadId,
                   threadIdInput, refreshThreadsTimer, armed, idemRun>>

\* Variant of StartResponse: the thread is selected without the re-fetch.
StartResponseNoRefetch(r, tid) ==
    /\ r \in Pending /\ r.k = "start"
    /\ inflight' = inflight (-) One(r)
    /\ activeThreadId' = IF tid # "" THEN tid ELSE activeThreadId
    /\ threadIdInput' = IF tid # "" THEN tid ELSE threadIdInput
    /\ UNCHANGED uiVars
    /\ last' = Ev("startResponse", "", tid, "")
    /\ UNCHANGED <<workspaces, activeWorkspaceId, threads, refreshThreadsTimer, armed>>
    /\ idemRun' = Touched

\* POST /api/threads/start answered with {threadId: tid} (tid = "": none):
\* startThread() calls refreshThreads(), which either issues the fetch for
\* the workspace active now or, with none active, returns at once, and then
\* startThread selects tid.
StartResponse(r, tid) ==
    /\ r \in Pending /\ r.k = "start"
    /\ refreshThreads(activeWorkspaceId, inflight (-) One(r), tid)
    /\ activeThreadId' = IF activeWorkspaceId = "" /\ tid # "" THEN tid ELSE activeThreadId
    /\ threadIdInput' = IF activeWorkspaceId = "" /\ tid # "" THEN tid ELSE threadIdInput
    /\ UNCHANGED uiVars
    /\ last' = Ev("startResponse", "", tid, "")
    /\ UNCHANGED <<workspaces, activeWorkspaceId, refreshThreadsTimer, armed>>
    /\ idemRun' = Touched

\* Variant of RequestFails: a failed thread fetch is taken for an empty
\* collection.
RequestFailsEmptiesThreads(r) ==
    /\ r \in Pending
    /\ inflight' = inflight (-) One(r)
    /\ threads' = IF r.k = "threads" THEN <<>> ELSE threads
    /\ activeThreadId' = IF r.k = "threads" THEN "" ELSE activeThreadId
    /\ UNCHANGED uiVars
    /\ last' = Ev("requestFailed", "", "", r.k)
    /\ UNCHANGED <<workspaces, activeWorkspaceId, threadIdInput,
                   refreshThreadsTimer, armed, idemRun>>

\* An outbound call fails (transport failure or a non-success status): api()
\* throws, the awaiting functions rethrow up to the handler, which logs.
RequestFails(r) ==
    /\ r \in Pending
    /\ inflight' = inflight (-) One(r)
    /\ UNCHANGED uiVars
    /\ last' = Ev("requestFailed",
                   IF last.op = "timerFired" /\ r = Req("threads", activeWorkspaceId, "")
                   THEN "sched" ELSE "",
                   "", r.k)
    /\ UNCHANGED <<workspaces, activeWorkspaceId, threads, activeThreadId,
                   threadIdInput, refreshThreadsTimer, armed, idemRun>>

\* Variant of PushAppServerEvent: the event's thread id replaces a thread
\* already active.
PushAlwaysAdopts(ws, tid) ==
    LET accepted == tid # "" /\ ws = activeWorkspaceId
        adopts == accepted
        arms == accepted /\ scheduleArms(ws)
    IN
    /\ activeThreadId' = IF adopts THEN tid ELSE activeThreadId
    /\ threadIdInput' = IF adopts THEN tid ELSE threadIdInput
    /\ refreshThreadsTimer' = (refreshThreadsTimer \/ arms)
    /\ armed' = IF arms THEN armed + 1 ELSE armed
    /\ UNCHANGED uiVars
    /\ last' = Ev("push", ws, tid,
                   IF arms THEN "armed"
                   ELSE IF accepted /\ ws # "" /\ refreshThreadsTimer
                   THEN (IF last.op = "push" /\ last.prev \in {"coalesced", "coalesced+"}
                         THEN "coalesced+" ELSE "coalesced")
                   ELSE "")
    /\ UNCHANGED <<workspaces, activeWorkspaceId, threads, inflight>>
    /\ idemRun' = Touched

\* Variant of PushAppServerEvent: the event's workspace is not compared with
\* the active one.
PushIgnoresWorkspace(ws, tid) ==
    LET accepted == tid # ""
        adopts == accepted /\ activeThreadId = ""
        arms == accepted /\ scheduleArms(ws)
    IN
    /\ activeThreadId' = IF adopts THEN tid ELSE activeThreadId
    /\ threadIdInput' = IF adopts THEN tid ELSE threadIdInput
    /\ refreshThreadsTimer' = (refreshThreadsTimer \/ arms)
    /\ armed' = IF arms THEN armed + 1 ELSE armed
    /\ UNCHANGED uiVars
    /\ last' = Ev("push", ws, tid,
                   IF arms THEN "armed"
                   ELSE IF accepted /\ ws # "" /\ refreshThreadsTimer
                   THEN (IF last.op = "push" /\ last.prev \in {"coalesced", "coalesced+"}
                         THEN "coalesced+" ELSE "coalesced")
                   ELSE "")
    /\ UNCHANGED <<workspaces, activeWorkspaceId, threads, inflight>>
    /\ idemRun' = Touched

\* Variant of PushAppServerEvent: the refresh is scheduled only when the
\* event's thread id is adopted.
PushSchedulesOnAdopt(ws, tid) ==
    LET accepted == tid # "" /\ ws = activeWorkspaceId
        adopts == accepted /\ activeThreadId = ""
        arms == adopts /\ scheduleArms(ws)
    IN
    /\ activeThreadId' = IF adopts THEN tid ELSE activeThreadId
    /\ threadIdInput' = IF adopts THEN tid ELSE threadIdInput
    /\ refreshThreadsTimer' = (refreshThreadsTimer \/ arms)
    /\ armed' = IF arms THEN armed + 1 ELSE armed
    /\ UNCHANGED uiVars
    /\ last' = Ev("push", ws, tid, IF arms THEN "armed" ELSE "")
    /\ UNCHANGED <<workspaces, activeWorkspaceId, threads, inflight>>
    /\ idemRun' = Touched

\* Inbound push message {method: "app-server-event"} for workspace ws whose
\* nested params carry the thread id tid ("": none).
PushAppServerEvent(ws, tid) ==
    LET accepted == tid # "" /\ ws = activeWorkspaceId
        adopts == accepted /\ activeThreadId = ""
        arms == accepted /\ scheduleArms(ws)
    IN
    /\ activeThreadId' = IF adopts THEN tid ELSE activeThreadId
    /\ threadIdInput' = IF adopts THEN tid ELSE threadIdInput
    /\ refreshThreadsTimer' = (refreshThreadsTimer \/ arms)
    /\ armed' = IF arms THEN armed + 1 ELSE armed
    /\ UNCHANGED uiVars
    /\ last' = Ev("push", ws, tid,
                   IF arms THEN "armed"
                   ELSE IF accepted /\ ws # "" /\ refreshThreadsTimer
                   THEN (IF last.op = "push" /\ last.prev \in {"coalesced", "coalesced+"}
                         THEN "coalesced+" ELSE "coalesced")
                   ELSE "")
    /\ UNCHANGED <<workspaces, activeWorkspaceId, threads, inflight>>
    /\ idemRun' = Touched

\* Variant of TimerFires: the callback leaves state.refreshThreadsTimer set.
TimerFiresKeepsFlag ==
    /\ armed > 0
    /\ activeWorkspaceId = "" \/ CanIssue
    /\ refreshThreadsTimer' = refreshThreadsTimer
    /\ armed' = armed - 1
    /\ refreshThreads(activeWorkspaceId, inflight, "")
    /\ UNCHANGED uiVars
    /\ last' = Ev("timerFired", "", "", IF last.op = "push" THEN last.prev ELSE "")
    /\ UNCHANGED <<workspaces, activeWorkspaceId, activeThreadId, threadIdInput>>
    /\ idemRun' = Touched

\* The setTimeout callback of scheduleRefreshThreads runs: it clears
\* state.refreshThreadsTimer and calls refreshThreads().
TimerFires ==
    /\ armed > 0
    /\ activeWorkspaceId = "" \/ CanIssue
    /\ refreshThreadsTimer' = FALSE
    /\ armed' = armed - 1
    /\ refreshThreads(activeWorkspaceId, inflight, "")
    /\ UNCHANGED uiVars
    /\ last' = Ev("timerFired", "", "", IF last.op = "push" THEN last.prev ELSE "")
    /\ UNCHANGED <<workspaces, activeWorkspaceId, activeThreadId, threadIdInput>>
    /\ idemRun' = Touched

\* ---------------------------------------- the request client: steps ----
\* api() is called and its fetch() settles: with a rejection, or with the
\* status line of a response whose body is yet to be read.  One call is
\* followed at a time: api() shares nothing between its calls.
FetchSettles(resp) ==
    /\ response.kind = "none" \/ outcome.kind # "none"
    /\ response' = resp
    /\ outcome' = NoOutcome
    /\ UNCHANGED <<workspaces, activeWorkspaceId, threads, activeThreadId,
                   threadIdInput, refreshThreadsTimer, armed, inflight,
                   idemRun, last, messageInput, logVars, chanVars, tokenVars>>

\* response.text() reads the body as it arrives, here token by token.
BodyArrives(t) ==
    /\ response.kind = "response"
    /\ outcome.kind = "none"
    /\ Len(response.rawText) < MaxBody
    /\ response' = [response EXCEPT !.rawText = Append(@, t)]
    /\ UNCHANGED <<workspaces, activeWorkspaceId, threads, activeThreadId,
                   threadIdInput, refreshThreadsTimer, armed, inflight,
                   idemRun, last, messageInput, logVars, chanVars, tokenVars,
                   outcome>>

\* The body has been read, or fetch() has rejected: the rest of api() runs.
ApiCompletes ==
    /\ response.kind # "none"
    /\ outcome.kind = "none"
    /\ outcome' = api(response)
    /\ UNCHANGED <<workspaces, activeWorkspaceId, threads, activeThreadId,
                   threadIdInput, refreshThreadsTimer, armed, inflight,
                   idemRun, last, messageInput, logVars, chanVars, tokenVars,
                   response>>

\* ------------------------------------------------- the event log -------
\* Variant of appendEvent: above the capacity the first child, the line just
\* prepended, is the one removed.
appendEventEvictsNewest(log, line) ==
    LET added == <<line>> \o log
    IN IF Len(added) > MAX_EVENT_LINES THEN SubSeq(added, 2, Len(added)) ELSE added

\* Variant of appendEvent: above the capacity every line but the new one is
\* removed.
appendEventTrimsToOne(log, line) ==
    LET added == <<line>> \o log
    IN IF Len(added) > MAX_EVENT_LINES THEN <<line>> ELSE added

\* appendEvent: the children of els.eventsLog after line is prepended and,
\* while there are more than MAX_EVENT_LINES, the last child is removed.
appendEvent(log, line) ==
    LET added == <<line>> \o log
    IN IF Len(added) > MAX_EVENT_LINES THEN SubSeq(added, 1, MAX_EVENT_LINES) ELSE added

\* A task calls appendEvent(kind, payload); the line is known by the number
\* of the call.
AppendEvent ==
    /\ appended < MaxAppended
    /\ appended' = appended + 1
    /\ eventsLog' = appendEvent(eventsLog, appended + 1)
    /\ last' = Ev("appendEvent", "", "", "")
    /\ UNCHANGED <<workspaces, activeWorkspaceId, threads, activeThreadId,
                   threadIdInput, refreshThreadsTimer, armed, inflight, idemRun,
                   messageInput, chanVars>>
    /\ UNCHANGED <<apiVars, tokenVars>>

\* clearEventsBtn click: els.eventsLog.innerHTML = "".
ClickClearEvents ==
    /\ eventsLog' = <<>>
    /\ last' = Ev("clearEvents", "", "", "")
    /\ UNCHANGED <<workspaces, activeWorkspaceId, threads, activeThreadId,
                   threadIdInput, refreshThreadsTimer, armed, inflight, idemRun,
                   messageInput, appended, chanVars>>
    /\ UNCHANGED <<apiVars, tokenVars>>

\* ------------------------------------------------ the push channel -----
\* The readyState of a WebSocket: "connecting", "open", "closing" (close()
\* was called), "failed" (its error event was dispatched, its close event is
\* to follow) and "closed" (its close event was dispatched).
setReadyState(c, v) == [sockets EXCEPT ![c] = v]

\* Variant of connectWs: a WebSocket is constructed whether or not one is
\* held.
connectWsAlways ==
    /\ Len(sockets) < MaxSockets
    /\ sockets' = Append(sockets, "connecting")
    /\ stateWs' = Len(sockets) + 1
    /\ wsStatus' = "WS: connecting"
    /\ wsUrls' = Append(wsUrls, wsQuery(token))
    /\ steady' = "WS: connecting"
    /\ last' = Ev("connect", "", "", "opened")
    /\ UNCHANGED <<workspaces, activeWorkspaceId, threads, activeThreadId,
                   threadIdInput, refreshThreadsTimer, armed, inflight, idemRun,
                   messageInput, logVars>>
    /\ UNCHANGED <<apiVars, tokenVars>>

\* connectWsBtn click: connectWs().  With a WebSocket held it only logs;
\* else it constructs one, holds it and sets the badge.
connectWs ==
    /\ stateWs # 0 \/ Len(sockets) < MaxSockets
    /\ sockets' = IF stateWs # 0 THEN sockets ELSE Append(sockets, "connecting")
    /\ stateWs' = IF stateWs # 0 THEN stateWs ELSE Len(sockets) + 1
    /\ wsStatus' = IF stateWs # 0 THEN wsStatus ELSE "WS: connecting"
    /\ wsUrls' = IF stateWs # 0 THEN wsUrls ELSE Append(wsUrls, wsQuery(token))
    /\ steady' = IF stateWs # 0 THEN steady ELSE "WS: connecting"
    /\ last' = Ev("connect", "", "",
                   IF stateWs # 0 THEN "held"
                   ELSE IF last.op = "wsClose" /\ last.prev = "held" THEN "reopened"
                   ELSE "opened")
    /\ UNCHANGED <<workspaces, activeWorkspaceId, threads, activeThreadId,
                   threadIdInput, refreshThreadsTimer, armed, inflight, idemRun,
                   messageInput, logVars>>
    /\ UNCHANGED <<apiVars, tokenVars>>

\* Variant of disconnectWs: with no WebSocket held it returns at once.
disconnectWsOnlyHeld ==
    /\ sockets' = IF stateWs # 0 /\ sockets[stateWs] \in {"connecting", "open"}
                  THEN setReadyState(stateWs, "closing") ELSE sockets
    /\ stateWs' = 0
    /\ wsStatus' = IF stateWs # 0 THEN "WS: disconnected" ELSE wsStatus
    /\ wsUrls' = wsUrls
    /\ steady' = IF stateWs # 0 THEN "WS: disconnected" ELSE steady
    /\ last' = Ev("disconnect", "", "", IF stateWs # 0 THEN "held" ELSE "")
    /\ UNCHANGED <<workspaces, activeWorkspaceId, threads, activeThreadId,
                   threadIdInput, refreshThreadsTimer, armed, inflight, idemRun,
                   messageInput, logVars>>
    /\ UNCHANGED <<apiVars, tokenVars>>

\* disconnectWsBtn click: disconnectWs() closes the WebSocket held, if any,
\* drops it and sets the badge.
disconnectWs ==
    /\ sockets' = IF stateWs # 0 /\ sockets[stateWs] \in {"connecting", "open"}
                  THEN setReadyState(stateWs, "closing") ELSE sockets
    /\ stateWs' = 0
    /\ wsStatus' = "WS: disconnected"
    /\ wsUrls' = wsUrls
    /\ steady' = "WS: disconnected"
    /\ last' = Ev("disconnect", "", "", IF stateWs # 0 THEN "held" ELSE "")
    /\ UNCHANGED <<workspaces, activeWorkspaceId, threads, activeThreadId,
                   threadIdInput, refreshThreadsTimer, armed, inflight, idemRun,
                   messageInput, logVars>>
    /\ UNCHANGED <<apiVars, tokenVars>>

\* The open event of WebSocket c: its "open" listener.
WsOpen(c) ==
    /\ sockets[c] = "connecting"
    /\ sockets' = setReadyState(c, "open")
    /\ wsStatus' = "WS: connected"
    /\ wsUrls' = wsUrls
    /\ steady' = "WS: connected"
    /\ last' = Ev("wsOpen", "", "", IF c = stateWs THEN "held" ELSE "other")
    /\ UNCHANGED <<workspaces, activeWorkspaceId, threads, activeThreadId,
                   threadIdInput, refreshThreadsTimer, armed, inflight, idemRun,
                   messageInput, logVars, stateWs>>
    /\ UNCHANGED <<apiVars, tokenVars>>

\* Variant of WsError: the listener drops the WebSocket held.
WsErrorClearsHandle(c) ==
    /\ sockets[c] \in {"connecting", "open", "closing"}
    /\ sockets' = setReadyState(c, "failed")
    /\ wsStatus' = "WS: error"
    /\ wsUrls' = wsUrls
    /\ steady' = steady
    /\ stateWs' = 0
    /\ last' = Ev("wsError", "", "", IF c = stateWs THEN "held" ELSE "other")
    /\ UNCHANGED <<workspaces, activeWorkspaceId, threads, activeThreadId,
                   threadIdInput, refreshThreadsTimer, armed, inflight, idemRun,
                   messageInput, logVars>>
    /\ UNCHANGED <<apiVars, tokenVars>>

\* The error event of WebSocket c, whose connection failed: its "error"
\* listener.
WsError(c) ==
    /\ sockets[c] \in {"connecting", "open", "closing"}
    /\ sockets' = setReadyState(c, "failed")
    /\ wsStatus' = "WS: error"
    /\ wsUrls' = wsUrls
    /\ steady' = steady
    /\ last' = Ev("wsError", "", "", IF c = stateWs THEN "held" ELSE "other")
    /\ UNCHANGED <<workspaces, activeWorkspaceId, threads, activeThreadId,
                   threadIdInput, refreshThreadsTimer, armed, inflight, idemRun,
                   messageInput, logVars, stateWs>>
    /\ UNCHANGED <<apiVars, tokenVars>>

\* Variant of WsClose: the listener leaves state.ws as it is.
WsCloseKeepsHandle(c) ==
    /\ sockets[c] \in {"open", "closing", "failed"}
    /\ sockets' = setReadyState(c, "closed")
    /\ wsStatus' = "WS: disconnected"
    /\ wsUrls' = wsUrls
    /\ steady' = "WS: disconnected"
    /\ last' = Ev("wsClose", "", "", IF c = stateWs THEN "held" ELSE "other")
    /\ UNCHANGED <<workspaces, activeWorkspaceId, threads, activeThreadId,
                   threadIdInput, refreshThreadsTimer, armed, inflight, idemRun,
                   messageInput, logVars, stateWs>>
    /\ UNCHANGED <<apiVars, tokenVars>>

\* The close event of WebSocket c (closed by the peer, by close() or after
\* its failure): its "close" listener sets the badge and state.ws = null.
WsClose(c) ==
    /\ sockets[c] \in {"open", "closing", "failed"}
    /\ sockets' = setReadyState(c, "closed")
    /\ wsStatus' = "WS: disconnected"
    /\ wsUrls' = wsUrls
    /\ steady' = "WS: disconnected"
    /\ stateWs' = 0
    /\ last' = Ev("wsClose", "", "", IF c = stateWs THEN "held" ELSE "other")
    /\ UNCHANGED <<workspaces, activeWorkspaceId, threads, activeThreadId,
                   threadIdInput, refreshThreadsTimer, armed, inflight, idemRun,
                   messageInput, logVars>>
    /\ UNCHANGED <<apiVars, tokenVars>>

\* ------------------------------------------------- the composer --------
\* The operator edits the thread-id input: no handler listens, no task runs.
TypeThreadId(v) ==
    /\ v # threadIdInput
    /\ threadIdInput' = v
    /\ UNCHANGED <<workspaces, activeWorkspaceId, threads, activeThreadId,
                   refreshThreadsTimer, armed, inflight, idemRun, last, uiVars>>

\* The operator edits the message input: no handler listens, no task runs.
TypeMessage(v) ==
    /\ v # messageInput
    /\ messageInput' = v
    /\ UNCHANGED <<workspaces, activeWorkspaceId, threads, activeThreadId,
                   threadIdInput, refreshThreadsTimer, armed, inflight, idemRun,
                   last, logVars, chanVars>>
    /\ UNCHANGED <<apiVars, tokenVars>>

\* resumeThreadBtn click: resumeThread() up to its await of POST
\* /api/threads/resume, or up to its throw, which the click handler catches.
ClickResumeThread ==
    LET threadId == resolveThreadId(threadIdInput, activeThreadId)
        error == resumeThreadError(activeWorkspaceId, threadId)
    IN
    /\ error # "" \/ CanIssue
    /\ inflight' = IF error # "" THEN inflight
                   ELSE inflight (+) One(Req("resume", "", ""))
    /\ last' = Ev("resumeThread", IF error # "" THEN "" ELSE activeWorkspaceId,
                   IF error # "" THEN "" ELSE threadId, error)
    /\ UNCHANGED <<workspaces, activeWorkspaceId, threads, activeThreadId,
                   threadIdInput, refreshThreadsTimer, armed, idemRun, uiVars>>

\* POST /api/threads/resume answered: the rest of resumeThread().
ResumeResponse(r) ==
    /\ r \in Pending /\ r.k = "resume"
    /\ inflight' = inflight (-) One(r)
    /\ last' = Ev("resumeResponse", "", "", "")
    /\ UNCHANGED <<workspaces, activeWorkspaceId, threads, activeThreadId,
                   threadIdInput, refreshThreadsTimer, armed, idemRun, uiVars>>

\* sendMessageBtn click: sendMessage() up to its await of POST
\* /api/threads/message, or up to its throw, which the click handler catches.
ClickSendMessage ==
    LET threadId == resolveThreadId(threadIdInput, activeThreadId)
        error == sendMessageError(activeWorkspaceId, threadId, Trim(messageInput))
    IN
    /\ error # "" \/ CanIssue
    /\ inflight' = IF error # "" THEN inflight
                   ELSE inflight (+) One(Req("message", "", ""))
    /\ last' = Ev("sendMessage", IF error # "" THEN "" ELSE activeWorkspaceId,
                   IF error # "" THEN "" ELSE threadId, error)
    /\ UNCHANGED <<workspaces, activeWorkspaceId, threads, activeThreadId,
                   threadIdInput, refreshThreadsTimer, armed, idemRun, uiVars>>

\* Variant of MessageResponse: the message input keeps its text.
MessageResponseKeepsText(r) ==
    /\ r \in Pending /\ r.k = "message"
    /\ inflight' = inflight (-) One(r)
    /\ last' = Ev("messageResponse", "", "", "")
    /\ UNCHANGED <<workspaces, activeWorkspaceId, threads, activeThreadId,
                   threadIdInput, refreshThreadsTimer, armed, idemRun, uiVars>>

\* POST /api/threads/message answered: the rest of sendMessage(), which
\* empties the message input.
MessageResponse(r) ==
    /\ r \in Pending /\ r.k = "message"
    /\ inflight' = inflight (-) One(r)
    /\ messageInput' = ""
    /\ last' = Ev("messageResponse", "", "", "")
    /\ UNCHANGED <<workspaces, activeWorkspaceId, threads, activeThreadId,
                   threadIdInput, refreshThreadsTimer, armed, idemRun,
                   logVars, chanVars>>
    /\ UNCHANGED <<apiVars, tokenVars>>

\* ------------------------------------------------ push messages -------
\* An inbound message, by what the "message" listener reads of it: whether
\* its text is JSON, and the type and method of the value ("": absent).
MessageTypes == {"", "gateway/ready", "gateway/error", "gateway/disconnected"}
MessageMethods == {"", "app-server-event", "terminal-output", "terminal-exit",
                   "turn/started"}
Messages ==
    {[parses |-> FALSE, type |-> "", method |-> ""]}
    \cup {[parses |-> TRUE, type |-> t, method |-> m] :
              t \in MessageTypes, m \in MessageMethods}

\* The branch of the listener that handles m, by the category it logs under
\* ("app": the app-server-event branch).
messageBranch(m) ==
    IF ~m.parses THEN "ws/raw"
    ELSE IF m.type = "gateway/ready" THEN "gateway/ready"
    ELSE IF m.type = "gateway/error" THEN "gateway/error"
    ELSE IF m.type = "gateway/disconnected" THEN "gateway/disconnected"
    ELSE IF m.method = "app-server-event" THEN "app"
    ELSE IF m.method \in {"terminal-output", "terminal-exit"} THEN m.method
    ELSE "ws/event"

\* Variant of WsMessage: gateway/disconnected drops the WebSocket held.
WsMessageDropsHandle(c, m) ==
    /\ c \in 1..Len(sockets)
    /\ sockets[c] \in {"open", "closing"}
    /\ messageBranch(m) # "app"
    /\ appended < MaxMessages
    /\ appended' = appended + 1
    /\ eventsLog' = appendEvent(eventsLog, appended + 1)
    /\ stateWs' = IF messageBranch(m) = "gateway/disconnected" THEN 0 ELSE stateWs
    /\ last' = Ev("message", "", "", messageBranch(m))
    /\ UNCHANGED <<workspaces, activeWorkspaceId, threads, activeThreadId,
                   threadIdInput, refreshThreadsTimer, armed, inflight, idemRun,
                   messageInput, sockets, wsUrls, wsStatus, steady>>
    /\ UNCHANGED <<apiVars, tokenVars>>

\* The "message" listener of WebSocket c for a message m that is not handled
\* by the app-server-event branch: one appendEvent call and return.
WsMessage(c, m) ==
    /\ c \in 1..Len(sockets)
    /\ sockets[c] \in {"open", "closing"}
    /\ messageBranch(m) # "app"
    /\ appended < MaxMessages
    /\ appended' = appended + 1
    /\ eventsLog' = appendEvent(eventsLog, appended + 1)
    /\ last' = Ev("message", "", "", messageBranch(m))
    /\ UNCHANGED <<workspaces, activeWorkspaceId, threads, activeThreadId,
                   threadIdInput, refreshThreadsTimer, armed, inflight, idemRun,
                   messageInput, chanVars>>
    /\ UNCHANGED <<apiVars, tokenVars>>

\* --------------------------------------------- the credential store -----
\* What the operator may type into the token input: blanks only, a token with
\* blanks around it, a token.
TypedTokens == {"  ", " tk1 ", "tk2"}

\* localStorage.getItem(TOKEN_STORAGE_KEY) || "".
ReadToken(entry) == IF entry = <<>> THEN "" ELSE entry[1]

\* The operator edits the token input; no handler listens.
TypeToken(v) ==
    /\ tokenInput' = v
    /\ UNCHANGED <<workspaces, activeWorkspaceId, threads, activeThreadId,
                   threadIdInput, refreshThreadsTimer, armed, inflight,
                   idemRun, last, messageInput, logVars, chanVars, apiVars,
                   token, stored>>

\* saveTokenBtn click.
ClickSaveToken ==
    /\ token' = Trim(tokenInput)
    /\ stored' = IF token' # "" THEN <<token'>> ELSE <<>>
    /\ last' = Ev("saveToken", "", tokenInput, token)
    /\ UNCHANGED <<workspaces, activeWorkspaceId, threads, activeThreadId,
                   threadIdInput, refreshThreadsTimer, armed, inflight,
                   idemRun, messageInput, logVars, chanVars, apiVars,
                   tokenInput>>

\* Variant of ClickClearToken: the persisted entry is left in place.
ClickClearTokenKeepsEntry ==
    /\ token' = ""
    /\ tokenInput' = ""
    /\ stored' = stored
    /\ last' = Ev("clearToken", "", tokenInput, token)
    /\ UNCHANGED <<workspaces, activeWorkspaceId, threads, activeThreadId,
                   threadIdInput, refreshThreadsTimer, armed, inflight,
                   idemRun, messageInput, logVars, chanVars, apiVars>>

\* clearTokenBtn click.
ClickClearToken ==
    /\ token' = ""
    /\ tokenInput' = ""
    /\ stored' = <<>>
    /\ last' = Ev("clearToken", "", tokenInput, token)
    /\ UNCHANGED <<workspaces, activeWorkspaceId, threads, activeThreadId,
                   threadIdInput, refreshThreadsTimer, armed, inflight,
                   idemRun, messageInput, logVars, chanVars, apiVars>>

\* The page is loaded again: of the state only localStorage is kept, the
\* calls awaited and the WebSockets are gone with the page, and bootstrap()
\* runs up to its await of refreshDrawings().
Bootstrap ==
    /\ stored' = stored
    /\ token' = ReadToken(stored)
    /\ tokenInput' = token'
    /\ inflight' = One(ReqAs("drawings", "", "", token'))
    /\ last' = Ev("bootstrap", "", tokenInput, token)
    /\ workspaces' = <<>> /\ activeWorkspaceId' = ""
    /\ threads' = <<>> /\ activeThreadId' = ""
    /\ threadIdInput' = "" /\ messageInput' = ""
    /\ refreshThreadsTimer' = FALSE /\ armed' = 0 /\ idemRun' = 0
    /\ eventsLog' = <<>> /\ appended' = 0
    /\ stateWs' = 0 /\ sockets' = <<>> /\ wsUrls' = <<>>
    /\ wsStatus' = "" /\ steady' = ""
    /\ response' = NoResponse /\ outcome' = NoOutcome

\* GET /api/drawings of bootstrap() is answered or fails: either way
\* bootstrap() goes on with refreshWorkspaces(), up to its await.
DrawingsSettles(r) ==
    /\ r \in Pending
    /\ r.k = "drawings"
    /\ inflight' = (inflight (-) One(r)) (+) One(Req("workspaces", "", ""))
    /\ last' = Ev("drawingsSettled", "", "", "")
    /\ UNCHANGED uiVars
    /\ UNCHANGED <<workspaces, activeWorkspaceId, threads, activeThreadId,
                   threadIdInput, refreshThreadsTimer, armed, idemRun>>

\* The events pushed: for a workspace, with a thread id of that workspace or
\* with none; without a workspace id, with a thread id or with none.
PushInputs == {<<ws, tid>> \in (WorkspaceIds \cup {""}) \X (ThreadIds \cup {""}) :
                  \/ tid = ""
                  \/ ws # "" /\ OwnerOf(tid) = ws
                  \/ ws = "" /\ tid = "t1"}

Next ==
    \/ ClickRefreshWorkspaces
    \/ \E C \in WorkspaceLists : WorkspacesResponse(C)
    \/ ClickRefreshThreads
    \/ \E r \in Pending : \E T \in ThreadLists(r.ws) : ThreadsResponse(r, T)
    \/ \E w \in WorkspaceIds : SelectWorkspace(w)
    \/ \E t \in ThreadIds : SelectThread(t)
    \/ ClickStartThread
    \/ \E r \in Pending : \E tid \in StartedIds(r.ws) : StartResponse(r, tid)
    \/ \E r \in Pending : RequestFails(r)
    \/ \E p \in PushInputs : PushAppServerEvent(p[1], p[2])
    \/ TimerFires

Spec == Init /\ [][Next]_vars

\* An outbound call completes: fetch() resolves or rejects, and the task that
\* awaited it runs.
Completes ==
    \/ \E C \in WorkspaceLists : WorkspacesResponse(C)
    \/ \E r \in Pending : \E T \in ThreadLists(r.ws) : ThreadsResponse(r, T)
    \/ \E r \in Pending : \E tid \in StartedIds(r.ws) : StartResponse(r, tid)
    \/ \E r \in Pending : RequestFails(r)

\* The console with its composer, and without the pushed events, the timer
\* they arm and the clicks on the thread list and on its refresh button (the
\* thread-id input is filled by refreshThreads and by the operator).
ComposerNext ==
    \/ ClickRefreshWorkspaces
    \/ \E C \in WorkspaceLists : WorkspacesResponse(C)
    \/ \E r \in Pending : \E T \in ThreadLists(r.ws) : ThreadsResponse(r, T)
    \/ \E w \in WorkspaceIds : SelectWorkspace(w)
    \/ ClickStartThread
    \/ \E r \in Pending : \E tid \in StartedIds(r.ws) : StartResponse(r, tid)
    \/ \E r \in Pending : RequestFails(r)
    \/ \E v \in TypedThreadIds : TypeThreadId(v)
    \/ \E v \in TypedMessages : TypeMessage(v)
    \/ ClickResumeThread
    \/ \E r \in Pending : ResumeResponse(r)
    \/ ClickSendMessage
    \/ \E r \in Pending : MessageResponse(r)

ComposerSpec == Init /\ [][ComposerNext]_vars

\* The scheduler with the workspace switches and the two buttons of the push
\* channel, under the fairness of FairSpec.  The events are those that name a
\* workspace and a thread: no other reaches scheduleRefreshThreads().
TimerNext ==
    \/ ClickRefreshWorkspaces
    \/ \E C \in WorkspaceLists : WorkspacesResponse(C)
    \/ \E r \in Pending : \E T \in ThreadLists(r.ws) : ThreadsResponse(r, T)
    \/ \E w \in WorkspaceIds : SelectWorkspace(w)
    \/ \E r \in Pending : RequestFails(r)
    \/ \E p \in {q \in PushInputs : q[1] # "" /\ q[2] # ""} :
          PushAppServerEvent(p[1], p[2])
    \/ TimerFires
    \/ connectWs
    \/ disconnectWs

TimerSpec == Init /\ [][TimerNext]_vars /\ SF_vars(TimerFires) /\ WF_vars(Completes)

\* The composer with a thread-id input that only refreshThreads() fills: the
\* operator types messages, never a thread id, and starts no thread.
PairNext ==
    \/ ClickRefreshWorkspaces
    \/ \E C \in WorkspaceLists : WorkspacesResponse(C)
    \/ \E r \in Pending : \E T \in ThreadLists(r.ws) : ThreadsResponse(r, T)
    \/ \E w \in WorkspaceIds : SelectWorkspace(w)
    \/ \E r \in Pending : RequestFails(r)
    \/ \E v \in TypedMessages : TypeMessage(v)
    \/ ClickResumeThread
    \/ \E r \in Pending : ResumeResponse(r)
    \/ ClickSendMessage
    \/ \E r \in Pending : MessageResponse(r)

PairSpec == Init /\ [][PairNext]_vars

\* The event log: written by the tasks of the console, read by none of them,
\* and emptied by the operator.  Its steps are the appendEvent calls, whichever
\* task makes them, and the click on the clear button.
LogNext ==
    \/ AppendEvent
    \/ ClickClearEvents

LogSpec == Init /\ [][LogNext]_vars

\* The push channel: the two buttons and the events of the WebSockets.
ChanNext ==
    \/ connectWs
    \/ disconnectWs
    \/ \E c \in 1..Len(sockets) : WsOpen(c)
    \/ \E c \in 1..Len(sockets) : WsError(c)
    \/ \E c \in 1..Len(sockets) : WsClose(c)

ChanSpec == Init /\ [][ChanNext]_vars

\* The request client: one call of api() after another, over every way its
\* fetch() can settle and every body of at most MaxBody tokens.
ApiNext ==
    \/ \E resp \in FetchOutcomes : FetchSettles(resp)
    \/ \E t \in Tokens : BodyArrives(t)
    \/ ApiCompletes

ApiSpec == Init /\ [][ApiNext]_vars

\* The push messages: a WebSocket connected, the messages of every kind and
\* the store they arrive at.
MsgNext ==
    \/ connectWs
    \/ \E c \in 1..Len(sockets) : WsOpen(c)
    \/ \E c \in 1..Len(sockets) : \E m \in Messages : WsMessage(c, m)
    \/ \E p \in PushInputs : PushAppServerEvent(p[1], p[2])
    \/ ClickRefreshWorkspaces
    \/ \E C \in WorkspaceLists : WorkspacesResponse(C)
    \/ \E r \in Pending : \E T \in ThreadLists(r.ws) : ThreadsResponse(r, T)

MsgSpec == Init /\ [][MsgNext]_vars

\* The credential store alone: the token input, its two buttons and the
\* page loaded again.
StoreNext ==
    \/ \E v \in TypedTokens : TypeToken(v)
    \/ ClickSaveToken
    \/ ClickClearToken
    \/ Bootstrap

StoreSpec == Init /\ [][StoreNext]_vars

\* The credential store with what reads it: the token input and its two
\* buttons, the page loaded again, the REST calls of bootstrap() and of the
\* refresh button, which fail or stay unanswered, and the push channel.
TokenNext ==
    \/ \E v \in TypedTokens : TypeToken(v)
    \/ ClickSaveToken
    \/ ClickClearToken
    \/ Bootstrap
    \/ \E r \in Pending : DrawingsSettles(r)
    \/ ClickRefreshWorkspaces
    \/ \E r \in {q \in Pending : q.k # "drawings"} : RequestFails(r)
    \/ connectWs
    \/ disconnectWs

TokenSpec == Init /\ [][TokenNext]_vars

\* The console without startThread, which neither reads nor writes the
\* scheduler: the steps the liveness of the scheduler is checked under.
SchedNext ==
    \/ ClickRefreshWorkspaces
    \/ \E C \in WorkspaceLists : WorkspacesResponse(C)
    \/ ClickRefreshThreads
    \/ \E r \in Pending : \E T \in ThreadLists(r.ws) : ThreadsResponse(r, T)
    \/ \E w \in WorkspaceIds : SelectWorkspace(w)
    \/ \E t \in ThreadIds : SelectThread(t)
    \/ \E r \in Pending : RequestFails(r)
    \/ \E p \in PushInputs : PushAppServerEvent(p[1], p[2])
    \/ TimerFires

\* The event loop runs an armed setTimeout callback once its delay has passed,
\* whatever calls are awaited (strong fairness: here the step is disabled
\* while the bag of calls awaited is full), and every call completes.
FairSpec == Init /\ [][SchedNext]_vars /\ SF_vars(TimerFires) /\ WF_vars(Completes)

\* ------------------------------------------------------- properties -----
\* A completed refreshThreads() that no startThread() awaited with a thread
\* id to select.
PlainThreadsApplied == last.op = "threadsApplied" /\ last.tid = ""
\* The step added a copy of the call r to the calls awaited.
Added(r) == CopiesIn(r, inflight') > CopiesIn(r, inflight)

\* C1 (as claimed): in every reachable state with a workspace active, the
\* active thread id is empty or the id of a thread in state.threads.
C1_Original ==
    activeWorkspaceId # "" => (activeThreadId = "" \/ Has(threads, activeThreadId))

\* C1 (amended): right after refreshThreads() applied a fetched collection,
\* the active thread id is the id of a thread of that collection, or empty
\* with the collection empty.
C1_AfterFetch ==
    PlainThreadsApplied =>
        \/ Has(threads, activeThreadId)
        \/ activeThreadId = "" /\ threads = <<>>

\* C1 witness: a fetch completed whose collection lacks the thread that was
\* active, and the selection was reset to a thread of the collection.
C1_Witness ==
    /\ PlainThreadsApplied
    /\ last.prev # "" /\ ~Has(threads, last.prev)
    /\ Has(threads, activeThreadId)

\* C2 (as claimed): right after the operator switched the active workspace,
\* while the thread fetch for the new workspace is awaited, the active thread
\* id is empty.
C2_Claim ==
    last.op = "selectWorkspace" =>
        /\ Req("threads", activeWorkspaceId, "") \in Pending
        /\ activeThreadId = ""

\* C3: refreshWorkspaces() makes the active workspace id the previous one if
\* the fetched collection holds it, else the first workspace's, else empty;
\* so it is an element of the collection, or empty with the collection empty.
C3_Reconciled ==
    last.op = "workspacesApplied" =>
        /\ activeWorkspaceId =
              IF Has(workspaces, last.prev) THEN last.prev
              ELSE IF workspaces # <<>> THEN workspaces[1]
              ELSE ""
        /\ \/ Has(workspaces, activeWorkspaceId)
           \/ activeWorkspaceId = "" /\ workspaces = <<>>

\* C3 witness: the fetched collection lacks the workspace that was active and
\* its first workspace became active.
C3_Witness ==
    /\ last.op = "workspacesApplied"
    /\ last.prev # "" /\ ~Has(workspaces, last.prev)
    /\ workspaces # <<>> /\ activeWorkspaceId = workspaces[1]

\* C4: refreshThreads() keeps an active thread id that is in the fetched
\* collection T and otherwise (absent or empty) makes it the first thread's
\* id, or empty when T is empty.
C4_Reconciled ==
    PlainThreadsApplied =>
        activeThreadId =
            IF last.prev # "" /\ Has(threads, last.prev) THEN last.prev
            ELSE IF threads # <<>> THEN threads[1]
            ELSE ""

\* C4 witness: the thread that was active is in T, not as its first thread,
\* and stayed active.
C4_Witness ==
    /\ PlainThreadsApplied
    /\ Len(threads) = 2 /\ last.prev = threads[2]
    /\ activeThreadId = last.prev

\* C5: a refreshThreads() completing right after another one (nothing having
\* changed state.threads or the active thread id in between) with the same
\* collection leaves the active thread id as the first left it.
C5_Idempotent ==
    [][(/\ idemRun >= 1
        /\ last'.op = "threadsApplied" /\ last'.tid = ""
        /\ threads' = threads)
       => activeThreadId' = activeThreadId]_vars

\* C5 witness: two such completions in a row, with a thread active.
C5_Witness ==
    idemRun = 2 /\ PlainThreadsApplied /\ activeThreadId # ""

C7_AdoptOnlyWhenEmpty ==
    [][(last'.op = "push" /\ last'.tid # "" /\ last'.ws = activeWorkspaceId)
       => /\ activeThreadId' = IF activeThreadId = "" THEN last'.tid
                               ELSE activeThreadId
          /\ last'.ws # "" => refreshThreadsTimer' /\ armed' >= 1]_vars

\* C7 witness: such an event named another thread than the active one, which
\* stayed active, and armed the timer.
C7_Witness ==
    /\ last.op = "push" /\ last.prev = "armed"
    /\ last.ws = activeWorkspaceId /\ last.tid # ""
    /\ activeThreadId # "" /\ activeThreadId # last.tid
    /\ refreshThreadsTimer

\* C8: an app-server-event for another workspace than the active one changes
\* neither the active thread id, nor state.threads, nor the scheduler.
C8_StaleEventFrame ==
    [][(last'.op = "push" /\ last'.ws # activeWorkspaceId)
       => UNCHANGED <<activeThreadId, threadIdInput, threads,
                      refreshThreadsTimer, armed, inflight>>]_vars

\* C8 witness: such an event carried a thread id while no thread was active
\* and no refresh was pending.
C8_Witness ==
    /\ last.op = "push" /\ last.tid # ""
    /\ last.ws # "" /\ activeWorkspaceId # "" /\ last.ws # activeWorkspaceId
    /\ activeThreadId = "" /\ ~refreshThreadsTimer /\ armed = 0

\* C9: at most one timer is armed at any time; an event that finds the timer
\* pending arms none and issues no call; the timer, when it fires, issues at
\* most one call, the thread fetch for the active workspace.
C9_Coalescing ==
    /\ [](armed <= 1 /\ (refreshThreadsTimer <=> armed = 1))
    /\ [][(last'.op = "push" /\ refreshThreadsTimer)
          => armed' = armed /\ refreshThreadsTimer' /\ inflight' = inflight]_vars
    /\ [][last'.op = "timerFired"
          => /\ armed' = 0 /\ ~refreshThreadsTimer'
             /\ inflight' = IF activeWorkspaceId = "" THEN inflight
                            ELSE inflight (+) One(Req("threads", activeWorkspaceId, ""))]_vars

\* C9 witness: the timer fired right after two events in a row had found it
\* pending, and one thread fetch is awaited.
C9_Witness ==
    /\ last.op = "timerFired" /\ last.prev = "coalesced+"
    /\ armed = 0 /\ ~refreshThreadsTimer
    /\ inflight = One(Req("threads", activeWorkspaceId, ""))

\* C10: the scheduler arms no timer for a workspace that is not the active
\* one; an event for such a workspace changes neither the scheduler nor the
\* calls awaited; and every thread fetch issued is for the workspace active
\* when it is issued.
C10_StaleTargetDrop ==
    /\ [](\A A \in WorkspaceIds \cup {""} :
             A # activeWorkspaceId => ~scheduleArms(A))
    /\ [][(last'.op = "push" /\ last'.ws # activeWorkspaceId)
          => UNCHANGED <<refreshThreadsTimer, armed, inflight>>]_vars
    /\ [][\A r \in BagToSet(inflight') :
             r.k = "threads" /\ Added(r) => r.ws = activeWorkspaceId']_vars

\* C10 witness: w1 was active (its thread is still listed), w2 is active now,
\* and an event for w1 with a thread id armed nothing.
C10_Witness ==
    /\ last.op = "push" /\ last.ws = "w1" /\ last.tid # ""
    /\ activeWorkspaceId = "w2" /\ Has(threads, "t1")
    /\ ~refreshThreadsTimer /\ armed = 0

\* C11: the timer callback clears the pending flag and calls the re-fetch
\* once, leaving no other callback armed; neither the failure nor the
\* success of a call changes the flag; and with the flag clear, an event for
\* the active workspace arms a new timer.
C11_FlagClearedAtFire ==
    /\ [][last'.op = "timerFired" =>
            /\ ~refreshThreadsTimer' /\ armed' = 0
            /\ inflight' = IF activeWorkspaceId = "" THEN inflight
                           ELSE inflight (+) One(Req("threads", activeWorkspaceId, ""))]_vars
    /\ [][last'.op \in {"requestFailed", "threadsApplied"} =>
            UNCHANGED <<refreshThreadsTimer, armed>>]_vars
    /\ [][(/\ last'.op = "push" /\ last'.tid # ""
           /\ last'.ws # "" /\ last'.ws = activeWorkspaceId
           /\ ~refreshThreadsTimer) =>
            refreshThreadsTimer' /\ armed' = 1]_vars
\* The fetch the callback issued has failed, and the scheduler accepts a
\* request for the active workspace.
C11_Witness ==
    /\ last.op = "requestFailed" /\ last.ws = "sched"
    /\ ~refreshThreadsTimer /\ armed = 0
    /\ scheduleArms(activeWorkspaceId)

\* An app-server-event with a thread id for the active workspace w has just
\* been handled.
AcceptedPush(w) ==
    last.op = "push" /\ last.tid # "" /\ last.ws = w /\ activeWorkspaceId = w
\* The timer callback has just issued the thread fetch for workspace w.
ScheduledFetch(w) ==
    /\ last.op = "timerFired" /\ activeWorkspaceId = w
    /\ Req("threads", w, "") \in Pending

\* C12: with the timer callback and the completion of calls fair, an
\* app-server-event with a thread id for the active workspace leads to the
\* timer callback issuing a thread fetch for that workspace, unless another
\* workspace (or none) becomes active.
C12_EventuallyRefetched ==
    \A w \in WorkspaceIds :
        AcceptedPush(w) ~> (ScheduledFetch(w) \/ activeWorkspaceId # w)
\* The callback issued the fetch right after an event that found the timer
\* armed already.
C12_Witness ==
    /\ last.op = "timerFired" /\ last.prev = "coalesced"
    /\ ScheduledFetch(activeWorkspaceId)

\* The step is a task named op: the history record changed or a call was
\* added or removed (an edit of an input runs no task and changes neither).
Task(op) == last'.op = op /\ (last' # last \/ inflight' # inflight)
\* The step changed neither the store nor the inputs and posted nothing.
NothingDone ==
    /\ inflight' = inflight
    /\ UNCHANGED <<workspaces, activeWorkspaceId, threads, activeThreadId,
                   threadIdInput, messageInput>>

\* C13: sendMessage() with a workspace active, a thread id resolved and a
\* message input that is empty or blank throws "Enter a message first",
\* posts nothing and leaves the store and the message input as they were.
C13_BlankTextRejected ==
    [][(/\ Task("sendMessage")
        /\ activeWorkspaceId # ""
        /\ Trim(IF threadIdInput # "" THEN threadIdInput ELSE activeThreadId) # ""
        /\ messageInput \in {"", "  "}) =>
            last'.prev = "Enter a message first" /\ NothingDone]_vars
\* sendMessage() has just refused a blank message.
C13_Witness ==
    /\ last.op = "sendMessage" /\ last.prev = "Enter a message first"
    /\ messageInput = "  " /\ inflight = EmptyBag

\* C14: with no workspace active startThread(), resumeThread() and
\* sendMessage() throw, and with a workspace active but the thread-id input
\* and the active thread id both empty resumeThread() and sendMessage()
\* throw, posting nothing and leaving the store as it was.
C14_PreconditionsRejected ==
    /\ [][(/\ \/ Task("startThread") \/ Task("resumeThread") \/ Task("sendMessage")
           /\ activeWorkspaceId = "") =>
            last'.prev = "Select a workspace first" /\ NothingDone]_vars
    /\ [][(/\ Task("resumeThread") \/ Task("sendMessage")
           /\ activeWorkspaceId # ""
           /\ threadIdInput = "" /\ activeThreadId = "") =>
            last'.prev = "Select a thread first" /\ NothingDone]_vars
\* resumeThread() has just refused to run without a thread id, in a workspace.
C14_Witness ==
    /\ last.op = "resumeThread" /\ last.prev = "Select a thread first"
    /\ activeWorkspaceId # "" /\ threadIdInput = "" /\ activeThreadId = ""

\* C15: the body resumeThread() and sendMessage() post carries the workspace
\* id active at the click and, as thread id, the (trimmed) value of the
\* thread-id input when that is not empty, else the active thread id.
C15_ThreadIdResolution ==
    [][(/\ Task("resumeThread") \/ Task("sendMessage")
        /\ last'.prev = "") =>
            /\ last'.ws = activeWorkspaceId
            /\ last'.tid = IF threadIdInput # "" THEN Trim(threadIdInput)
                           ELSE activeThreadId
            /\ inflight' = inflight (+) One(Req(IF last'.op = "resumeThread"
                                                THEN "resume" ELSE "message", "", ""))]_vars
\* sendMessage() has just posted the id typed into the input, another thread
\* being the active one.
C15_Witness ==
    /\ last.op = "sendMessage" /\ last.prev = "" /\ last.tid = "t3"
    /\ threadIdInput = " t3 " /\ activeThreadId \notin {"", "t3"}

\* C16: the message input is emptied by the task that runs when POST
\* /api/threads/message is answered, and changed by no other task: not by the
\* click and not by a failed call.
C16_ClearedOnSuccessOnly ==
    /\ [][Task("messageResponse") => messageInput' = ""]_vars
    /\ [][messageInput' # messageInput =>
            \/ Task("messageResponse")
            \/ last' = last /\ inflight' = inflight]_vars
    /\ [][Task("requestFailed") \/ Task("sendMessage") =>
            messageInput' = messageInput]_vars
\* POST /api/threads/message has just failed and the input holds the text.
C16_Witness ==
    /\ last.op = "requestFailed" /\ last.prev = "message"
    /\ messageInput = " hi "

\* C17: the event log never holds more than MAX_EVENT_LINES lines, and the
\* lines it holds are the newest ones, newest first: the i-th child is the
\* line of the i-th last appendEvent call.
C17_Capacity ==
    /\ Len(eventsLog) <= MAX_EVENT_LINES
    /\ \A i \in 1..Len(eventsLog) : eventsLog[i] = appended + 1 - i
\* More lines were appended than the log holds: the oldest are gone.
C17_Witness ==
    /\ appended > MAX_EVENT_LINES
    /\ Len(eventsLog) = MAX_EVENT_LINES
    /\ eventsLog[MAX_EVENT_LINES] = appended + 1 - MAX_EVENT_LINES

\* C18 (as claimed): a line once appended leaves the log only by capacity
\* eviction, so the log holds every line appended so far but the oldest ones
\* beyond the capacity.
C18_Original ==
    Len(eventsLog) = IF appended > MAX_EVENT_LINES THEN MAX_EVENT_LINES ELSE appended
\* C18 (amended): a line leaves the log only as the last child when an
\* appendEvent call finds the log full, or with all the others when the
\* clear button is clicked.
C18_RemovedByEvictionOrClear ==
    [][\A i \in 1..Len(eventsLog) :
          (\A j \in 1..Len(eventsLog') : eventsLog'[j] # eventsLog[i]) =>
              \/ /\ last'.op = "appendEvent" /\ appended' = appended + 1
                 /\ i = MAX_EVENT_LINES
              \/ last'.op = "clearEvents" /\ eventsLog' = <<>>]_vars
\* The clear button has just emptied a log that lines had been appended to.
C18_Witness ==
    last.op = "clearEvents" /\ eventsLog = <<>> /\ appended > 0

\* C19: connectWs() with a WebSocket held constructs none and leaves the
\* handle and the badge as they are; with none held it constructs one, holds
\* it and sets the badge to "WS: connecting"; and nothing else constructs a
\* WebSocket.
C19_ConnectOnlyWhenNotHeld ==
    /\ [][last'.op = "connect" =>
            IF stateWs # 0 THEN UNCHANGED <<stateWs, sockets, wsStatus>>
            ELSE /\ sockets' = Append(sockets, "connecting")
                 /\ stateWs' = Len(sockets')
                 /\ wsStatus' = "WS: connecting"]_vars
    /\ [][Len(sockets') # Len(sockets) => last'.op = "connect" /\ stateWs = 0]_vars
\* connectWs() has just run with an open WebSocket held.
C19_Witness ==
    /\ last.op = "connect" /\ last.prev = "held"
    /\ stateWs # 0 /\ sockets[stateWs] = "open" /\ wsStatus = "WS: connected"
    /\ Len(sockets) < MaxSockets

\* C20: after the close event of the WebSocket held the badge reads
\* "WS: disconnected" and no WebSocket is held, and a connectWs() that runs
\* next constructs a new WebSocket and holds it.
C20_CloseClearsHandle ==
    /\ [](last.op = "wsClose" /\ last.prev = "held" =>
            stateWs = 0 /\ wsStatus = "WS: disconnected")
    /\ [][(/\ last.op = "wsClose" /\ last.prev = "held"
           /\ last'.op = "connect") =>
            /\ Len(sockets') = Len(sockets) + 1
            /\ stateWs' = Len(sockets') /\ sockets'[stateWs'] = "connecting"
            /\ wsStatus' = "WS: connecting"]_vars
\* connectWs() has just constructed a WebSocket right after the close event
\* of the one held before.
C20_Witness ==
    /\ last.op = "connect" /\ last.prev = "reopened"
    /\ stateWs = Len(sockets) /\ stateWs > 1
    /\ sockets[stateWs] = "connecting" /\ sockets[stateWs - 1] = "closed"

\* The WebSockets that are connecting or open.
Live == {c \in 1..Len(sockets) : sockets[c] \in {"connecting", "open"}}

\* C21: disconnectWs() leaves no WebSocket held and the badge at
\* "WS: disconnected" whether or not one was held, and the one held is no
\* longer connecting or open; the other WebSockets are left alone.
C21_DisconnectClears ==
    [][last'.op = "disconnect" =>
          /\ stateWs' = 0 /\ wsStatus' = "WS: disconnected"
          /\ \A c \in 1..Len(sockets) :
                IF c = stateWs THEN sockets'[c] \notin {"connecting", "open"}
                ELSE sockets'[c] = sockets[c]
          /\ Len(sockets') = Len(sockets)]_vars
\* disconnectWs() has just run with no WebSocket held and the badge not at
\* "WS: disconnected" before: nothing was constructed yet.
C21_Witness ==
    /\ last.op = "disconnect" /\ last.prev = ""
    /\ sockets = <<>> /\ stateWs = 0 /\ wsStatus = "WS: disconnected"

\* C22: the error listener sets the badge to "WS: error" and leaves state.ws
\* as it is; a WebSocket held stops being held only by a close event or by
\* disconnectWs().
C22_ErrorKeepsHandle ==
    /\ [][last'.op = "wsError" =>
            wsStatus' = "WS: error" /\ stateWs' = stateWs]_vars
    /\ [][stateWs # 0 /\ stateWs' # stateWs =>
            last'.op \in {"wsClose", "disconnect"}]_vars
\* The error event of the WebSocket held has just been handled.
C22_Witness ==
    /\ last.op = "wsError" /\ last.prev = "held"
    /\ stateWs # 0 /\ sockets[stateWs] = "failed" /\ wsStatus = "WS: error"

\* C23 (as claimed): the badge is set to "WS: connected" only when the text
\* it was last set to, "WS: error" apart, is "WS: connecting", and to
\* "WS: connecting" only when that text is "WS: disconnected" or there is
\* none yet.
C23_Claim ==
    [][/\ last'.op = "wsOpen" => steady = "WS: connecting"
       /\ (last'.op = "connect" /\ stateWs = 0) =>
              steady \in {"", "WS: disconnected"}]_vars

\* C24 (as claimed): at most one WebSocket is connecting or open.
C24_Claim == Cardinality(Live) <= 1

\* C25: whichever thread fetch is answered, for the active workspace or not,
\* started first or last, its answer replaces state.threads and the active
\* thread id is reconciled against it (or set to the id the awaiting
\* startThread() selects).
C25_LastToCompleteWins ==
    [][last'.op = "threadsApplied" =>
          \E r \in Pending :
              /\ r.k = "threads" /\ inflight' = inflight (-) One(r)
              /\ threads' \in ThreadLists(r.ws)
              /\ activeThreadId' = IF r.then # "" THEN r.then
                                   ELSE reconcileActiveThread(activeThreadId, threads')]_vars
\* Workspace w2 is active and no fetch is awaited, and the store holds the
\* threads of w1: the fetch for w1, started first, was answered last.
C25_Witness ==
    /\ last.op = "threadsApplied" /\ inflight = EmptyBag
    /\ activeWorkspaceId = "w2" /\ Has(threads, "t1")

\* The step added no call to the calls awaited.
NoCallAdded ==
    \A r \in BagToSet(inflight') : CopiesIn(r, inflight') <= CopiesIn(r, inflight)

\* C26: when GET /api/workspaces is answered, the thread fetch is issued, for
\* the reconciled active workspace, exactly when that id is not empty; when
\* it is empty state.threads becomes empty and nothing is issued.
C26_ThreadFetchIffActive ==
    [][last'.op = "workspacesApplied" =>
          LET rest == inflight (-) One(Req("workspaces", "", ""))
          IN IF activeWorkspaceId' # ""
             THEN /\ inflight' = rest (+) One(Req("threads", activeWorkspaceId', ""))
                  /\ threads' = threads
             ELSE inflight' = rest /\ threads' = <<>>]_vars
\* The workspace collection came back without the workspace that was active
\* and with no other: no fetch is awaited and the thread collection is empty.
C26_Witness ==
    /\ last.op = "workspacesApplied" /\ last.prev # ""
    /\ activeWorkspaceId = "" /\ threads = <<>> /\ inflight = EmptyBag
    /\ activeThreadId # ""

\* C27: refreshThreads() called with no workspace active, by the refresh
\* button, by the timer callback or by startThread(), adds no call and leaves
\* state.threads empty.
C27_NoWorkspaceNoFetch ==
    [][(/\ last'.op \in {"refreshThreads", "timerFired", "startResponse"}
        /\ activeWorkspaceId = "") =>
            threads' = <<>> /\ NoCallAdded]_vars
\* The timer callback has run after the workspace it was armed for, and every
\* other, left the collection.
C27_Witness ==
    /\ last.op = "timerFired" /\ activeWorkspaceId = ""
    /\ threads = <<>> /\ inflight = EmptyBag /\ activeThreadId # ""

\* C28 as stated: api() fails exactly when the response is a non-success
\* one, and returns the decoded body, {raw: text} or null for a success.
Returned ==
    outcome.kind = "returns" =>
        /\ response.kind = "response" /\ response.ok
        /\ response.rawText = <<>> => outcome.payload = JNull
        /\ (response.rawText # <<>> /\ response.rawText \in ValidTexts) =>
               /\ outcome.payload.t # "raw"
               /\ Stringify(outcome.payload) = response.rawText
        /\ (response.rawText # <<>> /\ response.rawText \notin ValidTexts) =>
               outcome.payload = JRaw(response.rawText)

Bearer(tok) == IF tok # "" THEN <<"Bearer", tok>> ELSE <<>>

C29_CallsCarryCredential ==
    [][/\ \A r \in BagToSet(inflight') :
              CopiesIn(r, inflight') > CopiesIn(r, inflight)
                  => r.headers.Authorization = Bearer(token')
       /\ Len(sockets') > Len(sockets) =>
              /\ Len(wsUrls') = Len(sockets')
              /\ wsUrls'[Len(wsUrls')] =
                     IF token # "" THEN <<"token", token>> ELSE <<>>]_vars

\* A call made with tk1 is still awaited and a WebSocket connected with tk1
\* is still held after the operator has cleared the credential, and a call
\* made since carries no header.
C29_Witness ==
    /\ token = ""
    /\ BagToSet(inflight) = {ReqAs("workspaces", "", "", "tk1"),
                             ReqAs("workspaces", "", "", "")}
    /\ last.op = "refreshWorkspaces"
    /\ stateWs = 1 /\ wsUrls = <<(<<"token", "tk1">>)>>

\* C30: the credential in memory is the persisted entry, or empty when no
\* entry is persisted; a save with a non-empty trimmed value persists that
\* value, a save with an empty one and a clear remove the entry, and the page
\* loaded again restores the entry as it was persisted.
C30_StoreConsistent ==
    /\ [](token = ReadToken(stored) /\ stored # <<"">>)
    /\ [][/\ Task("saveToken") =>
              /\ token' = Trim(tokenInput)
              /\ stored' = IF Trim(tokenInput) # "" THEN <<Trim(tokenInput)>> ELSE <<>>
          /\ Task("clearToken") => token' = "" /\ stored' = <<>>
          /\ Task("bootstrap") =>
              /\ stored' = stored
              /\ token' = ReadToken(stored)
              /\ (stored # <<>> => token' = stored[1])]_vars

\* The page loaded again after " tk1 " was saved and the input edited.
C30_Witness ==
    /\ last.op = "bootstrap" /\ last.tid = "tk2"
    /\ token = "tk1" /\ stored = <<"tk1">> /\ tokenInput = "tk1"

\* C31: the "message" listener, for a message that is not JSON or that a
\* branch other than the app-server-event one handles, makes one appendEvent
\* call and leaves the collections, the active pair, the scheduler's flag and
\* the WebSocket held as they are.
C31_OtherMessagesOnlyLog ==
    [][Task("message") \/ (last'.op = "message" /\ appended' # appended) =>
          /\ appended' = appended + 1
          /\ eventsLog' = appendEvent(eventsLog, appended')
          /\ UNCHANGED <<workspaces, threads, activeWorkspaceId, activeThreadId,
                         refreshThreadsTimer, armed, stateWs, inflight>>]_vars

\* A terminal-output message arrives while a workspace and a thread are
\* active, the timer is armed and the WebSocket is held.
C31_Witness ==
    /\ last.op = "message" /\ last.prev = "terminal-output"
    /\ activeWorkspaceId = "w1" /\ activeThreadId = "t1" /\ threads # <<>>
    /\ refreshThreadsTimer /\ stateWs # 0
    /\ eventsLog = <<1>>

\* C32: the task that replaces state.threads with a fetched collection also
\* reconciles the active thread id (and selects the thread startThread()
\* created) before any other task runs, and the task that replaces
\* state.workspaces also reconciles the active workspace id; no other task
\* replaces either collection with a fetched one.
C32_MutationsAtomic ==
    /\ [][(threads' # threads /\ threads' # <<>>) =>
             /\ last'.op = "threadsApplied"
             /\ activeThreadId' = IF last'.tid # "" THEN last'.tid
                                   ELSE reconcileActiveThread(activeThreadId, threads')
             /\ threadIdInput' = activeThreadId']_vars
    /\ [][workspaces' # workspaces =>
             /\ last'.op = "workspacesApplied"
             /\ activeWorkspaceId' = renderWorkspaces(workspaces', activeWorkspaceId)]_vars

\* A thread fetch completes while the timer is armed and another call is
\* awaited: the collection is replaced and the active thread, absent from
\* it, is reset to its first thread in the same task.
C32_Witness ==
    /\ last.op = "threadsApplied" /\ last.tid = ""
    /\ last.prev # "" /\ ~Has(threads, last.prev)
    /\ threads # <<>> /\ activeThreadId = threads[1]
    /\ refreshThreadsTimer /\ inflight # EmptyBag

\* C33: the active workspace id is empty or the id of a workspace of
\* state.workspaces, whatever the order of the refreshWorkspaces()
\* completions and of the operator's picks among the options rendered.
C33_ActiveWorkspaceListed ==
    activeWorkspaceId = "" \/ Has(workspaces, activeWorkspaceId)

\* The second of two overlapping refreshWorkspaces() completes with a
\* collection that lacks the workspace the operator had picked, while the
\* thread fetch of that pick is still awaited.
C33_Witness ==
    /\ last.op = "workspacesApplied" /\ last.prev = "w1"
    /\ workspaces = <<"w2">> /\ activeWorkspaceId = "w2"
    /\ Req("threads", "w1", "") \in Pending

\* C34: when startThread() has selected the thread it created, that thread
\* belongs to the workspace that is active.
C34_Claim ==
    (last.op = "threadsApplied" /\ last.tid # "") =>
        /\ activeThreadId = last.tid
        /\ OwnerOf(activeThreadId) = activeWorkspaceId

\* C35: with no thread id typed by hand, the body resumeThread() and
\* sendMessage() post names a thread of the workspace it names.
C35_Claim ==
    (last.op \in {"resumeThread", "sendMessage"} /\ last.prev = "") =>
        OwnerOf(last.tid) = last.ws

\* C36: with no workspace active, no thread is active.
C36_Claim ==
    activeWorkspaceId = "" => activeThreadId = ""

\* C37: the task that runs when a call fails takes the call off the calls
\* awaited, hands the error to the handler that awaited it and leaves the
\* collections, the active pair and the thread-id input as they were.
C37_FailureChangesNothing ==
    [][Task("requestFailed") =>
          /\ \E r \in Pending : inflight' = inflight (-) One(r) /\ last'.prev = r.k
          /\ UNCHANGED <<workspaces, activeWorkspaceId, threads, activeThreadId,
                         threadIdInput>>]_vars

\* The thread fetch made for w2 fails while the threads of w1 are listed and
\* one of them is active.
C37_Witness ==
    /\ last.op = "requestFailed" /\ last.prev = "threads"
    /\ activeWorkspaceId = "w2" /\ workspaces = <<"w1", "w2">>
    /\ threads = <<"t2", "t1">> /\ activeThreadId = "t1"
    /\ inflight = EmptyBag

\* C38: an armed timer is disarmed by its own callback only, not by a change
\* of the active workspace and not by disconnectWs(); the callback runs
\* whatever happened since, and the thread fetch it issues is for the
\* workspace active when it runs; while the timer is armed an event for the
\* active workspace arms no other.
C38_TimerNotCancelled ==
    /\ [][armed' # armed \/ refreshThreadsTimer' # refreshThreadsTimer =>
             last'.op \in {"push", "timerFired"}]_vars
    /\ [][last'.op = "timerFired" =>
             /\ armed' = armed - 1
             /\ \A r \in BagToSet(inflight') :
                    Added(r) => r = Req("threads", activeWorkspaceId, "")]_vars
    /\ [][(last'.op = "push" /\ refreshThreadsTimer) =>
             armed' = armed /\ refreshThreadsTimer']_vars
    /\ (armed > 0 ~> last.op = "timerFired")

\* The callback has run with the channel disconnected and w2 active, the
\* threads of w1 being still listed: its fetch is for w2.
C38_Witness ==
    /\ last.op = "timerFired" /\ activeWorkspaceId = "w2"
    /\ inflight = One(Req("threads", "w2", ""))
    /\ threads = <<"t2", "t1">>
    /\ stateWs = 0 /\ sockets # <<>>

\* C39: an open, close or error event of a WebSocket that is not the one
\* held changes neither state.ws nor the badge, and state.ws is null only
\* while no WebSocket of the console is connecting or open.
C39_Claim ==
    /\ [][(last'.op \in {"wsOpen", "wsClose", "wsError"} /\ last'.prev # "held") =>
             stateWs' = stateWs /\ wsStatus' = wsStatus]_vars
    /\ [](stateWs = 0 => Live = {})

====
